---- MODULE Spec2Model ----
(***************************************************************************)
(* Model of forest_stand_generator: generate_stand (stand.py) and          *)
(* generate_tree with its two samplers (tree.py).                          *)
(*                                                                         *)
(* Real numbers are exact rationals <<n, d>> in lowest terms with d > 0.   *)
(* The leaf count of generate_tree is the one computation whose result     *)
(* depends on binary64 rounding; it is computed with an emulation of       *)
(* IEEE-754 double arithmetic (see the Float section).                     *)
(***************************************************************************)
EXTENDS Integers, Sequences, FiniteSets, TLC

\* ------------------------------------------------------------------ bounds
MaxTrees == 2      \* largest n_trees requested
DrawRes  == 2      \* number of sample points taken from each uniform range
MaxGridTrees == 4  \* largest n_trees of a uniform-placement call on its own
MaxLeafRows == 2   \* most leaves of a tree of an exported stand

\* --------------------------------------------------------- program constants
AttemptsPerTree == 50     \* max_attempts = n_trees * 50

\* --------------------------------------------------------------- rationals
\* Arguments are bound through singleton sets, so that each is computed once
\* however often the body uses it.
RECURSIVE Gcd(_, _)
Gcd(a, b) ==
    CHOOSE g \in { IF y = 0 THEN x ELSE Gcd(y, x % y) : x \in {a}, y \in {b} } : TRUE

Abs(a) == IF a < 0 THEN -a ELSE a

\* n/d in lowest terms with d > 0, for integers n and d # 0
Lowest(n, d) ==
    CHOOSE q \in { <<(s * n) \div g, (s * d) \div g>> :
                     s \in { IF d < 0 THEN -1 ELSE 1 },
                     g \in { Gcd(Abs(n), Abs(d)) } } : TRUE

\* the rational n/d
R(n, d) == CHOOSE q \in { Lowest(x, y) : x \in {n}, y \in {d} } : TRUE

RInt(k)    == <<k, 1>>
RAdd(p, q) == R(p[1] * q[2] + q[1] * p[2], p[2] * q[2])
RSub(p, q) == R(p[1] * q[2] - q[1] * p[2], p[2] * q[2])
RMul(p, q) == R(p[1] * q[1], p[2] * q[2])
RDiv(p, q) == R(p[1] * q[2], p[2] * q[1])
RLe(p, q)  == p[1] * q[2] <= q[1] * p[2]
RLt(p, q)  == p[1] * q[2] < q[1] * p[2]
RAbs(p)    == <<Abs(p[1]), p[2]>>
RSq(p)     == RMul(p, p)
Zero       == RInt(0)
One        == RInt(1)
Half       == R(1, 2)
Origin     == <<Zero, Zero, Zero>>

\* ceil(sqrt(q)) for a rational q >= 0: np.ceil(np.sqrt(q))
CeilSqrt(q) ==
    CHOOSE c \in 0..(q[1] + 1) :
        /\ c * c * q[2] >= q[1]
        /\ \A b \in 0..(q[1] + 1) : b * b * q[2] >= q[1] => c <= b

\* ceil(a / b) for naturals a and b > 0: np.ceil(a / b)
CeilDiv(a, b) == (a + b - 1) \div b

\* ------------------------------------------------------------------- Float
\* Python floats are IEEE-754 binary64.  A natural number of any size is a
\* sequence of limbs in base 2^14, least significant first, without leading
\* zero limbs; a non-negative float is <<m, e>> with value m * 2^e, where m
\* is such a natural of exactly 53 bits, or <<>> for 0.0.
Base == 2^14
Pow2(k) == 2^k

Head0(a) == IF a = <<>> THEN 0 ELSE Head(a)
Tail0(a) == IF a = <<>> THEN <<>> ELSE Tail(a)

RECURSIVE BNorm(_)
BNorm(a) ==
    IF a # <<>> /\ a[Len(a)] = 0 THEN BNorm(SubSeq(a, 1, Len(a) - 1)) ELSE a

RECURSIVE BFromInt(_)
BFromInt(k) == IF k = 0 THEN <<>> ELSE <<k % Base>> \o BFromInt(k \div Base)

RECURSIVE BToInt(_)
BToInt(a) == IF a = <<>> THEN 0 ELSE Head(a) + Base * BToInt(Tail(a))

RECURSIVE BAddC(_, _, _)
BAddC(a, b, c) ==
    IF a = <<>> /\ b = <<>>
    THEN IF c = 0 THEN <<>> ELSE <<c>>
    ELSE LET x == Head0(a) + Head0(b) + c
         IN  <<x % Base>> \o BAddC(Tail0(a), Tail0(b), x \div Base)
BAdd(a, b) == BAddC(a, b, 0)

\* a - b - c for a >= b + c
RECURSIVE BSubC(_, _, _)
BSubC(a, b, c) ==
    IF a = <<>> THEN <<>>
    ELSE LET x == Head(a) - Head0(b) - c
         IN  IF x < 0 THEN <<x + Base>> \o BSubC(Tail(a), Tail0(b), 1)
             ELSE <<x>> \o BSubC(Tail(a), Tail0(b), 0)
BSub(a, b) == BNorm(BSubC(a, b, 0))

\* a * k + c for 0 <= k, c < Base
RECURSIVE BMulSmall(_, _, _)
BMulSmall(a, k, c) ==
    IF a = <<>>
    THEN IF c = 0 THEN <<>> ELSE <<c>>
    ELSE LET x == Head(a) * k + c
         IN  <<x % Base>> \o BMulSmall(Tail(a), k, x \div Base)

RECURSIVE BMulRec(_, _)
BMulRec(a, b) ==
    IF b = <<>> THEN <<>>
    ELSE BAdd(BMulSmall(a, Head(b), 0), <<0>> \o BMulRec(a, Tail(b)))
BMul(a, b) == BNorm(BMulRec(a, b))

\* a < b
RECURSIVE BLtFrom(_, _, _)
BLtFrom(a, b, k) ==
    IF k = 0 THEN FALSE
    ELSE IF a[k] # b[k] THEN a[k] < b[k]
    ELSE BLtFrom(a, b, k - 1)
BLt(a, b) ==
    IF Len(a) # Len(b) THEN Len(a) < Len(b) ELSE BLtFrom(a, b, Len(a))

\* number of bits of a limb, of a natural
RECURSIVE LimbBits(_)
LimbBits(x) == IF x = 0 THEN 0 ELSE 1 + LimbBits(x \div 2)
BitLen(a) == IF a = <<>> THEN 0 ELSE 14 * (Len(a) - 1) + LimbBits(a[Len(a)])

\* bit k of a, bit 0 the least significant
BBit(a, k) ==
    IF k \div 14 + 1 > Len(a) THEN 0
    ELSE (a[k \div 14 + 1] \div Pow2(k % 14)) % 2

\* a * 2^s
RECURSIVE BShl(_, _)
BShl(a, s) ==
    IF a = <<>> THEN <<>>
    ELSE IF s >= 14 THEN <<0>> \o BShl(a, s - 14)
    ELSE BMulSmall(a, Pow2(s), 0)

\* floor(a / 2^s)
BShr(a, s) ==
    LET q == s \div 14
        r == s % 14
        n == Len(a) - q
    IN  IF n <= 0 THEN <<>>
        ELSE BNorm([ k \in 1..n |->
                 (a[k + q] \div Pow2(r))
                 + (IF k + q + 1 <= Len(a) THEN a[k + q + 1] % Pow2(r) ELSE 0)
                   * Pow2(14 - r) ])

\* some of the s low bits of a is set
BLowBits(a, s) == \E k \in 0..(s - 1) : BBit(a, k) = 1

\* a <= b
BLe(a, b) == ~BLt(b, a)

\* the largest g in lo..hi with d * g <= r, given d * lo <= r
RECURSIVE DivLimb(_, _, _, _)
DivLimb(r, d, lo, hi) ==
    IF lo = hi THEN lo
    ELSE LET mid == (lo + hi + 1) \div 2
         IN  IF BLe(BMulSmall(d, mid, 0), r) THEN DivLimb(r, d, mid, hi)
             ELSE DivLimb(r, d, lo, mid - 1)

\* long division by d > 0, limb k of a downwards: <<quotient, remainder>>
RECURSIVE BDivRec(_, _, _, _, _)
BDivRec(a, d, k, q, r) ==
    IF k = 0 THEN <<BNorm(q), r>>
    ELSE LET r2 == BNorm(<<a[k]>> \o r)
             g  == DivLimb(r2, d, 0, Base - 1)
             r3 == BSub(r2, BMulSmall(d, g, 0))
         IN  IF BLt(r3, d) THEN BDivRec(a, d, k - 1, <<g>> \o q, r3) ELSE <<>>
BDivMod(a, d) == BDivRec(a, d, Len(a), <<>>, <<>>)

FZero == <<>>

\* the binary64 nearest to (n + a fraction, nonzero iff sticky) * 2^e, ties
\* to even; subnormals and overflow are out of the range used
FRound(n, e, sticky) ==
    LET len == BitLen(n)
        s   == len - 53
    IN  IF n = <<>> THEN FZero
        ELSE IF s <= 0 THEN <<BShl(n, -s), e + s>>
        ELSE LET q     == BShr(n, s)
                 guard == BBit(n, s - 1) = 1
                 rest  == sticky \/ BLowBits(n, s - 1)
                 up    == guard /\ (rest \/ BBit(q, 0) = 1)
                 q1    == IF up THEN BAddC(q, <<>>, 1) ELSE q
             IN  IF BitLen(q1) > 53 THEN <<BShr(q1, 1), e + s + 1>>
                 ELSE <<q1, e + s>>

\* x * y
FMul(x, y) ==
    IF x = FZero \/ y = FZero THEN FZero
    ELSE FRound(BMul(x[1], y[1]), x[2] + y[2], FALSE)

\* x / y, y nonzero
FDiv(x, y) ==
    IF x = FZero THEN FZero
    ELSE LET qr == BDivMod(BShl(x[1], 56), y[1])
         IN  FRound(qr[1], x[2] - y[2] - 56, qr[2] # <<>>)

\* the float written n/d, for naturals n and d > 0
FFromRat(q) ==
    IF q[1] = 0 THEN FZero
    ELSE LET qr == BDivMod(BShl(BFromInt(q[1]), 84), BFromInt(q[2]))
         IN  FRound(qr[1], -84, qr[2] # <<>>)

\* int(x) for x < 2^31
FTrunc(x) ==
    IF x = FZero THEN 0
    ELSE IF x[2] >= 0 THEN BToInt(BShl(x[1], x[2]))
    ELSE BToInt(BShr(x[1], -x[2]))

\* np.pi = 0x1.921fb54442d18p+1
FPi == << <<11544, 4368, 8117, 1608>>, -51 >>

\* ------------------------------------------------------------ random source
\* np.random.uniform(a, b): DrawRes points of [a, b), the low end included
Uniform(a, b) ==
    { RAdd(a, RMul(R(k, DrawRes), RSub(b, a))) : k \in 0..(DrawRes - 1) }

\* np.sqrt(np.random.rand()): the draws of [0, 1) with a rational root
SqrtRand == { R(k, DrawRes) : k \in 0..(DrawRes - 1) }

\* np.random.uniform(0, 2*pi): the angles with rational cosine and sine,
\* as a number of quarter turns
QuarterTurns == 0..3
Cos(t) == RInt(<<1, 0, -1, 0>>[t + 1])
Sin(t) == RInt(<<0, 1, 0, -1>>[t + 1])

\* np.random.uniform(-1, 1) for cos_theta: draws c with 1 - c^2 a rational
\* square, each with its sin_theta = sqrt(1 - c^2)
CosThetaDraws ==
    { <<RInt(-1), Zero>>, <<Zero, One>>, <<R(3, 5), R(4, 5)>>,
      <<R(-4, 5), R(3, 5)>> }

\* ------------------------------------------------------------------ inputs
PlotSizes    == { RInt(1), RInt(2) }          \* plot_width, plot_length > 0
Spacings     == { Zero, One }                 \* min_spacing
Placements   == { "uniform", "random", "hexagonal" }
CrownShapes  == { "sphere", "sphere_w_LH", "cylinder", "cone" }
LeafAngleDistributions == { "uniform", "spherical", "planophile", "erectophile" }

\* keyword arguments of generate_tree other than position
TP(th, shape, lai, dist) ==
    [ trunk_height |-> th, trunk_radius |-> R(1, 5), crown_shape |-> shape,
      crown_height |-> RInt(2), crown_radius |-> One, lai |-> lai,
      leaf_radius |-> One, leaf_angle_distribution |-> dist ]

\* a per-tree list: element ix (1-based) has trunk_height 3 + ix
PerTree(len) == [ ix \in 1..len |-> TP(RInt(3 + ix), "cylinder", Zero, "uniform") ]

\* the same list with element k replaced by bad
PerTreeWith(len, k, bad) == [ PerTree(len) EXCEPT ![k] = bad ]

BadShapeLeafy == TP(RInt(9), "pyramid", One, "planophile")
BadDistLeafy  == TP(RInt(9), "sphere_w_LH", One, "vertical")
BadShapeBare  == TP(RInt(9), "pyramid", Zero, "planophile")
Leafy         == TP(RInt(9), "sphere_w_LH", One, "planophile")

\* tree_params: None, one dict, or a list of dicts
NoneParams    == [ kind |-> "none" ]
DictParams(d) == [ kind |-> "dict", d |-> d ]
ListParams(l) == [ kind |-> "list", l |-> l ]

DictInputs ==
    { DictParams(d) : d \in { TP(RInt(4), "sphere", Zero, "uniform"),
                              BadShapeLeafy, BadDistLeafy, BadShapeBare } }

ListInputs ==
    { ListParams(PerTree(len)) : len \in 0..(MaxTrees + 1) }
    \cup UNION { { ListParams(PerTreeWith(len, k, BadShapeLeafy)) : k \in {1, len} } :
                   len \in 1..MaxTrees }
    \cup { ListParams(PerTreeWith(len, len, Leafy)) : len \in 1..MaxTrees }

\* a direct call generate_tree(**call_params, position=position)
LeafCases ==
    { <<Zero, One, One>>, <<One, One, One>> }
TreeCallInputs ==
    { [ TP(RInt(4), shape, t[1], dist) EXCEPT !.crown_radius = t[2],
                                              !.leaf_radius = t[3] ] :
        shape \in CrownShapes \cup { "pyramid" },
        dist \in LeafAngleDistributions \cup { "vertical" },
        t \in LeafCases }
    \cup { [ TP(RInt(4), shape, RInt(2), dist) EXCEPT !.crown_radius = One ] :
             shape \in CrownShapes, dist \in { "planophile", "erectophile" } }
    \cup { [ TP(RInt(4), "cone", t[1], "planophile") EXCEPT !.crown_radius = t[2],
                                                           !.leaf_radius = t[3] ] :
             t \in { <<RInt(25), RInt(7), RInt(35)>>,
                     <<R(25, 2), RInt(14), RInt(35)>> } }
TreePositions == { Origin, <<One, Half, Zero>>, <<One, One, One>> }

\* direct calls sample_leaf_normal(distribution) and
\* sample_point_in_crown(shape, height, radius); the arguments are held in
\* call_params under the names generate_tree passes them from
SamplerSizes == { One, RInt(2) }
LeafNormalCallInputs ==
    { TP(RInt(4), "sphere", Zero, dist) :
        dist \in LeafAngleDistributions \cup { "vertical" } }
CrownCallInputs ==
    { [ TP(RInt(4), shape, Zero, "uniform") EXCEPT !.crown_height = h,
                                                   !.crown_radius = r ] :
        shape \in CrownShapes \cup { "pyramid" },
        h \in SamplerSizes, r \in SamplerSizes }

\* every dict that reaches generate_tree
TreeParamsUsed ==
    { tp.d : tp \in DictInputs }
    \cup UNION { { tp.l[k] : k \in 1..Len(tp.l) } : tp \in ListInputs }
    \cup TreeCallInputs

\* ------------------------------------------------------------------- state
VARIABLES
    plot_width, plot_length, n_trees, placement, tree_params, min_spacing,
    pc, exc, result, warned, rng_used,
    tree_list, n_cols, n_rows, i, j, count,
    attempts, max_attempts, positions, candidates,
    caller, position, call_params, trunk, crown_base_z, n_leaves, leaves,
    stand, rows, tid, lid

args       == <<plot_width, plot_length, n_trees, placement, min_spacing>>
uniformVars == <<n_cols, n_rows, i, j, count>>
randomVars == <<attempts, max_attempts, positions, candidates>>
treeVars   == <<trunk, crown_base_z, n_leaves, leaves>>
callVars   == <<caller, position, call_params>>
exportVars == <<stand, rows, tid, lid>>
vars == <<args, tree_params, pc, exc, result, warned, rng_used, tree_list,
          uniformVars, randomVars, callVars, treeVars, exportVars>>

None      == "None"       \* no exception, no caller, no placement
NoResult  == <<>>         \* nothing returned (yet)
Returned(v) == <<v>>      \* the call has returned v
Unbound   == <<>>         \* a local that is not bound yet
EmptyDict == <<>>         \* the dict {} that replaces tree_params = None

\* Raise with the exception swallowed and the call ending normally: C10
\* fails on it
RaiseSwallowed(e) == pc' = "done" /\ exc' = e

\* a raise statement that nothing catches: the call ends with the exception
Raise(e) == pc' = "raised" /\ exc' = e

\* ------------------------------------------------------------ tree.py
\* sample_leaf_normal: the exception branch
LeafNormalRaises(distribution) ==
    distribution \notin { "uniform", "spherical", "planophile", "erectophile" }

\* sample_leaf_normal with the two fixed directions exchanged: C11 fails on it
SampleLeafNormalSwapped(distribution) ==
    IF distribution \in { "uniform", "spherical" }
    THEN { << RMul(ct[2], Cos(phi)), RMul(ct[2], Sin(phi)), ct[1] >> :
             phi \in QuarterTurns, ct \in CosThetaDraws }
    ELSE IF distribution = "planophile" THEN { <<One, Zero, Zero>> }
    ELSE IF distribution = "erectophile" THEN { <<Zero, Zero, One>> }
    ELSE {}

\* sample_leaf_normal: the vectors it can return
SampleLeafNormal(distribution) ==
    IF distribution \in { "uniform", "spherical" }
    THEN { << RMul(ct[2], Cos(phi)), RMul(ct[2], Sin(phi)), ct[1] >> :
             phi \in QuarterTurns, ct \in CosThetaDraws }
    ELSE IF distribution = "planophile" THEN { <<Zero, Zero, One>> }
    ELSE IF distribution = "erectophile" THEN { <<One, Zero, Zero>> }
    ELSE {}

\* does sample_leaf_normal draw from np.random
LeafNormalDraws(distribution) == distribution \in { "uniform", "spherical" }

\* np.linalg.norm(point) <= radius, compared on the squares
NormLe(point, radius) ==
    /\ RLe(Zero, radius)
    /\ RLe(RAdd(RSq(point[1]), RAdd(RSq(point[2]), RSq(point[3]))), RSq(radius))

\* np.random.uniform(-radius, radius, size=3)
Cube(radius) ==
    LET U == Uniform(RSub(Zero, radius), radius) IN U \X U \X U

\* sample_point_in_crown: the exception branch
CrownRaises(shape) ==
    shape \notin { "sphere", "sphere_w_LH", "cylinder", "cone" }

\* sample_point_in_crown without the rejection test of lines 97 and 104: C12
\* fails on it
SamplePointInCrownNoReject(shape, height, radius) ==
    IF shape = "sphere"
    THEN { << pt[1], pt[2], RDiv(RMul(pt[3], height), radius) >> :
             pt \in Cube(radius) }
    ELSE IF shape = "sphere_w_LH"
    THEN { << pt[1], pt[2], RDiv(RMul(RAbs(pt[3]), height), radius) >> :
             pt \in Cube(radius) }
    ELSE IF shape = "cylinder"
    THEN { << RMul(RMul(radius, s), Cos(theta)),
              RMul(RMul(radius, s), Sin(theta)), z >> :
             s \in SqrtRand, theta \in QuarterTurns, z \in Uniform(Zero, height) }
    ELSE IF shape = "cone"
    THEN { << RMul(RMul(RMul(radius, RSub(One, RDiv(z, height))), s), Cos(theta)),
              RMul(RMul(RMul(radius, RSub(One, RDiv(z, height))), s), Sin(theta)),
              z >> :
             s \in SqrtRand, theta \in QuarterTurns, z \in Uniform(Zero, height) }
    ELSE {}

\* sample_point_in_crown: the points it can return
SamplePointInCrown(shape, height, radius) ==
    IF shape = "sphere"
    THEN { << pt[1], pt[2], RDiv(RMul(pt[3], height), radius) >> :
             pt \in { c \in Cube(radius) : NormLe(c, radius) } }
    ELSE IF shape = "sphere_w_LH"
    THEN { << pt[1], pt[2], RDiv(RMul(RAbs(pt[3]), height), radius) >> :
             pt \in { c \in Cube(radius) : NormLe(c, radius) } }
    ELSE IF shape = "cylinder"
    THEN { << RMul(RMul(radius, s), Cos(theta)),
              RMul(RMul(radius, s), Sin(theta)), z >> :
             s \in SqrtRand, theta \in QuarterTurns, z \in Uniform(Zero, height) }
    ELSE IF shape = "cone"
    THEN { << RMul(RMul(RMul(radius, RSub(One, RDiv(z, height))), s), Cos(theta)),
              RMul(RMul(RMul(radius, RSub(One, RDiv(z, height))), s), Sin(theta)),
              z >> :
             s \in SqrtRand, theta \in QuarterTurns, z \in Uniform(Zero, height) }
    ELSE {}

\* int(x) of a rational x: truncation toward zero
Trunc(q) == IF q[1] >= 0 THEN q[1] \div q[2] ELSE -((-q[1]) \div q[2])

\* lines 192-194 in binary64: crown_area = np.pi * crown_radius**2,
\* leaf_area = np.pi * leaf_radius**2, n_leaves = int((lai * crown_area) /
\* leaf_area)
FloatLeaves(lai, crown_radius, leaf_radius) ==
    LET cr         == FFromRat(crown_radius)
        lr         == FFromRat(leaf_radius)
        crown_area == FMul(FPi, FMul(cr, cr))
        leaf_area  == FMul(FPi, FMul(lr, lr))
    IN  FTrunc(FDiv(FMul(FFromRat(lai), crown_area), leaf_area))

\* FloatLeaves tabulated over the (lai, crown_radius, leaf_radius) of the
\* inputs, so that it is computed once for each
LeafInputs ==
    { <<p.lai, p.crown_radius, p.leaf_radius>> : p \in TreeParamsUsed }
LeafTable == { <<t, FloatLeaves(t[1], t[2], t[3])>> : t \in LeafInputs }

\* n_leaves, line 194
NLeaves(lai, crown_radius, leaf_radius) ==
    (CHOOSE e \in LeafTable : e[1] = <<lai, crown_radius, leaf_radius>>)[2]

\* the tree dict returned by generate_tree
Tree(tr, lv) == [ trunk |-> tr, leaves |-> lv ]

\* TreeEntry with the crown base left at the trunk base: C13 fails on it
TreeEntryGroundCrown ==
    /\ pc = "tree_entry"
    /\ trunk' = [ base |-> position, height |-> call_params.trunk_height,
                  radius |-> call_params.trunk_radius ]
    /\ crown_base_z' = position[3]
    /\ n_leaves' = NLeaves(call_params.lai, call_params.crown_radius,
                           call_params.leaf_radius)
    /\ leaves' = <<>>
    /\ pc' = "tree_loop"
    /\ UNCHANGED <<args, exportVars, tree_params, exc, result, warned, rng_used, tree_list,
                   uniformVars, randomVars, callVars>>

\* generate_tree, entry: trunk, crown base and leaf count
TreeEntry ==
    /\ pc = "tree_entry"
    /\ trunk' = [ base |-> position, height |-> call_params.trunk_height,
                  radius |-> call_params.trunk_radius ]
    /\ crown_base_z' = RAdd(position[3], call_params.trunk_height)
    /\ n_leaves' = NLeaves(call_params.lai, call_params.crown_radius,
                           call_params.leaf_radius)
    /\ leaves' = <<>>
    /\ pc' = "tree_loop"
    /\ UNCHANGED <<args, exportVars, tree_params, exc, result, warned, rng_used, tree_list,
                   uniformVars, randomVars, callVars>>

\* generate_tree, one iteration of the leaf loop
TreeLeaf ==
    /\ pc = "tree_loop"
    /\ Len(leaves) < n_leaves
    /\ IF CrownRaises(call_params.crown_shape)
       THEN /\ Raise("ValueError")
            /\ UNCHANGED <<leaves, rng_used>>
       ELSE \E local_pos \in SamplePointInCrown(call_params.crown_shape,
                                 call_params.crown_height, call_params.crown_radius) :
            LET world_pos == << RAdd(position[1], local_pos[1]),
                                RAdd(position[2], local_pos[2]),
                                RAdd(crown_base_z, local_pos[3]) >>
            IN  /\ rng_used' = TRUE
                /\ IF LeafNormalRaises(call_params.leaf_angle_distribution)
                   THEN /\ Raise("ValueError")
                        /\ UNCHANGED leaves
                   ELSE \E normal \in SampleLeafNormal(call_params.leaf_angle_distribution) :
                        /\ leaves' = Append(leaves,
                               [ center |-> world_pos,
                                 radius |-> call_params.leaf_radius,
                                 normal |-> normal ])
                        /\ UNCHANGED <<pc, exc>>
    /\ UNCHANGED <<args, exportVars, tree_params, result, warned, tree_list,
                   uniformVars, randomVars, callVars, trunk, crown_base_z, n_leaves>>

\* generate_tree has run its leaf loop to the end and returns
TreeReturns == pc = "tree_loop" /\ Len(leaves) >= n_leaves

\* a direct call of generate_tree returns its tree
TreeReturn ==
    /\ TreeReturns
    /\ caller = "top"
    /\ result' = Returned(Tree(trunk, leaves))
    /\ pc' = "done"
    /\ UNCHANGED <<args, exportVars, tree_params, exc, warned, rng_used, tree_list,
                   uniformVars, randomVars, callVars, treeVars>>

\* a direct call of sample_leaf_normal: lines 32-52
SampleLeafNormalCall ==
    /\ pc = "call" /\ caller = "sample_leaf_normal"
    /\ IF LeafNormalRaises(call_params.leaf_angle_distribution)
       THEN /\ Raise("ValueError")
            /\ UNCHANGED <<result, rng_used>>
       ELSE \E normal \in SampleLeafNormal(call_params.leaf_angle_distribution) :
            /\ result' = Returned(normal)
            /\ rng_used' = LeafNormalDraws(call_params.leaf_angle_distribution)
            /\ pc' = "done"
            /\ exc' = exc
    /\ UNCHANGED <<args, exportVars, tree_params, warned, tree_list,
                   uniformVars, randomVars, callVars, treeVars>>

\* a direct call of sample_point_in_crown, lines 94-122: one pass of the
\* `while True` loops of the two spheres (a candidate is drawn, then returned
\* or dropped), or the whole body for the other shapes
SamplePointInCrownCall ==
    /\ pc = "call" /\ caller = "sample_point_in_crown"
    /\ LET shape  == call_params.crown_shape
           height == call_params.crown_height
           radius == call_params.crown_radius
       IN  IF CrownRaises(shape)
           THEN /\ Raise("ValueError")
                /\ UNCHANGED <<result, rng_used>>
           ELSE /\ rng_used' = TRUE
                /\ \/ \E point \in SamplePointInCrown(shape, height, radius) :
                          /\ result' = Returned(point)
                          /\ pc' = "done"
                          /\ exc' = exc
                   \/ /\ shape \in { "sphere", "sphere_w_LH" }
                      /\ \E point \in Cube(radius) : ~NormLe(point, radius)
                      /\ UNCHANGED <<pc, exc, result>>
    /\ UNCHANGED <<args, exportVars, tree_params, warned, tree_list,
                   uniformVars, randomVars, callVars, treeVars>>

\* ------------------------------------------------------------ stand.py
\* get_tree_params that ignores its index: C4 fails on it
get_first_params(idx) ==
    IF tree_params.kind = "list" THEN tree_params.l[1] ELSE tree_params.d

\* get_tree_params(i), i 0-based
get_tree_params(idx) ==
    IF tree_params.kind = "list" THEN tree_params.l[idx + 1] ELSE tree_params.d

\* generate_tree(position=..., **kwargs) binds its eight keyword parameters
CallBinds(kwargs) ==
    DOMAIN kwargs = { "trunk_height", "trunk_radius", "crown_shape", "crown_height",
                      "crown_radius", "lai", "leaf_radius", "leaf_angle_distribution" }

\* the call generate_tree(position=pos, **get_tree_params(idx)) made from `from`
CallGenerateTree(from, pos, idx) ==
    IF CallBinds(get_tree_params(idx))
    THEN /\ pc' = "tree_entry"
         /\ caller' = from
         /\ position' = pos
         /\ call_params' = get_tree_params(idx)
         /\ exc' = exc
    ELSE /\ Raise("TypeError")
         /\ UNCHANGED callVars

\* LengthMismatch that only rejects lists that are too short: C3 fails on it
LengthMismatchShort(tp, n) == tp.kind = "list" /\ Len(tp.l) < n

\* lines 56-57: per_tree_params and len(tree_params) != n_trees
LengthMismatch(tp, n) == tp.kind = "list" /\ Len(tp.l) # n

\* lines 52-62: default for tree_params, the length check, the empty tree_list
Validate ==
    /\ pc = "validate"
    /\ LET tp == IF tree_params.kind = "none" THEN DictParams(EmptyDict)
                 ELSE tree_params
       IN  /\ tree_params' = tp
           /\ IF LengthMismatch(tp, n_trees)
              THEN Raise("ValueError")
              ELSE pc' = "dispatch" /\ exc' = exc
    /\ tree_list' = <<>>
    /\ UNCHANGED <<args, exportVars, result, warned, rng_used, uniformVars, randomVars,
                   callVars, treeVars>>

\* np.ceil(np.sqrt(n_trees * plot_width / plot_length))
GridCols == CeilSqrt(RDiv(RMul(RInt(n_trees), plot_width), plot_length))

\* PlacementBranch that falls back to random placement: C5 fails on it
PlacementBranchDefault(p) == IF p = "uniform" THEN "uniform" ELSE "random"

\* lines 67, 86, 107: the branch taken for a placement
PlacementBranch(p) ==
    IF p = "uniform" THEN "uniform"
    ELSE IF p = "random" THEN "random"
    ELSE "unsupported"

\* lines 67-72, 86-89, 107-108: the branch on placement
Dispatch ==
    /\ pc = "dispatch"
    /\ IF PlacementBranch(placement) = "uniform"
       THEN /\ n_cols' = GridCols
            /\ IF GridCols = 0
               THEN \* n_trees / n_cols divides by zero
                    /\ Raise("ZeroDivisionError")
                    /\ UNCHANGED <<n_rows, i, j, count>>
               ELSE /\ n_rows' = CeilDiv(n_trees, GridCols)
                    /\ count' = 0
                    /\ i' = 0
                    /\ j' = 0
                    /\ pc' = "uniform_loop"
                    /\ exc' = exc
            /\ UNCHANGED randomVars
       ELSE IF PlacementBranch(placement) = "random"
       THEN /\ attempts' = 0
            /\ candidates' = 0
            /\ max_attempts' = n_trees * AttemptsPerTree
            /\ positions' = <<>>
            /\ pc' = "random_loop"
            /\ exc' = exc
            /\ UNCHANGED uniformVars
       ELSE /\ Raise("ValueError")
            /\ UNCHANGED <<uniformVars, randomVars>>
    /\ UNCHANGED <<args, exportVars, tree_params, result, warned, rng_used, tree_list,
                   callVars, treeVars>>

x_spacing == RDiv(plot_width, RInt(n_cols))
y_spacing == RDiv(plot_length, RInt(n_rows))

\* GridPosition at the corner of the cell instead of its centre: C14 fails
\* on it
GridPositionCorner(col, row) ==
    << RMul(x_spacing, RInt(col)), RMul(y_spacing, RInt(row)), Zero >>

\* the grid position of cell (col, row): lines 79-81
GridPosition(col, row) ==
    << RMul(x_spacing, R(2 * col + 1, 2)), RMul(y_spacing, R(2 * row + 1, 2)), Zero >>

\* lines 75-82: a grid cell that gets a tree
UniformPlace ==
    /\ pc = "uniform_loop"
    /\ i < n_cols /\ j < n_rows /\ count < n_trees
    /\ CallGenerateTree("uniform", GridPosition(i, j), count)
    /\ UNCHANGED <<args, exportVars, tree_params, result, warned, rng_used, tree_list,
                   uniformVars, randomVars, treeVars>>

\* lines 83-84: the tree comes back to the uniform loop
UniformAppend ==
    /\ TreeReturns
    /\ caller = "uniform"
    /\ tree_list' = Append(tree_list, Tree(trunk, leaves))
    /\ count' = count + 1
    /\ j' = j + 1
    /\ pc' = "uniform_loop"
    /\ UNCHANGED <<args, exportVars, tree_params, exc, result, warned, rng_used,
                   n_cols, n_rows, i, randomVars, callVars, treeVars>>

\* lines 75-78: the inner loop ends (rows exhausted, or break) and the next
\* column starts
UniformNextCol ==
    /\ pc = "uniform_loop"
    /\ i < n_cols
    /\ j >= n_rows \/ count >= n_trees
    /\ i' = i + 1
    /\ j' = 0
    /\ UNCHANGED <<args, exportVars, tree_params, pc, exc, result, warned, rng_used, tree_list,
                   n_cols, n_rows, count, randomVars, callVars, treeVars>>

\* lines 75, 110: the outer loop ends and tree_list is returned
UniformReturn ==
    /\ pc = "uniform_loop"
    /\ i >= n_cols
    /\ result' = Returned(tree_list)
    /\ pc' = "done"
    /\ UNCHANGED <<args, exportVars, tree_params, exc, warned, rng_used, tree_list,
                   uniformVars, randomVars, callVars, treeVars>>

\* FarEnough with the sum of the coordinate distances for the Euclidean
\* norm: C2 fails on it
FarEnoughManhattan(x, y, ps) ==
    \A k \in 1..Len(ps) :
        RLe(min_spacing, RAdd(RAbs(RSub(x, ps[k][1])), RAbs(RSub(y, ps[k][2]))))

\* line 95: all(norm(pos - p[:2]) >= min_spacing for p in positions)
FarEnough(x, y, ps) ==
    \A k \in 1..Len(ps) :
        \/ RLt(min_spacing, Zero)
        \/ RLe(RSq(min_spacing),
               RAdd(RSq(RSub(x, ps[k][1])), RSq(RSub(y, ps[k][2]))))

\* LoopContinues with `or` for `and`: C6 fails on it
LoopContinuesEither(accepted, tried) ==
    accepted < n_trees \/ tried < max_attempts

\* line 91: the loop condition
LoopContinues(accepted, tried) == accepted < n_trees /\ tried < max_attempts

\* ShortStand that tests the attempt budget instead: C7 fails on it
ShortStandByBudget == attempts >= max_attempts

\* line 104: fewer trees than requested
ShortStand == Len(positions) < n_trees

\* lines 91-100, 102: one candidate is drawn; it is rejected, or accepted and
\* its tree requested.  candidates counts the candidates drawn at lines 92-93.
RandomDraw ==
    /\ pc = "random_loop"
    /\ LoopContinues(Len(positions), attempts)
    /\ rng_used' = TRUE
    /\ candidates' = candidates + 1
    /\ \E x \in Uniform(Zero, plot_width), y \in Uniform(Zero, plot_length) :
          IF FarEnough(x, y, positions)
          THEN /\ positions' = Append(positions, <<x, y, Zero>>)
               /\ CallGenerateTree("random", <<x, y, Zero>>, Len(tree_list))
               /\ UNCHANGED attempts
          ELSE /\ attempts' = attempts + 1
               /\ UNCHANGED <<positions, pc, exc, callVars>>
    /\ UNCHANGED <<args, exportVars, tree_params, result, warned, tree_list, uniformVars,
                   max_attempts, treeVars>>

\* RandomAppend with the attempt counted on rejections only: C16 fails on it
RandomAppendNoCount ==
    /\ TreeReturns
    /\ caller = "random"
    /\ tree_list' = Append(tree_list, Tree(trunk, leaves))
    /\ pc' = "random_loop"
    /\ UNCHANGED <<args, exportVars, tree_params, exc, result, warned, rng_used, uniformVars,
                   attempts, max_attempts, positions, candidates, callVars, treeVars>>

\* lines 101-102: the tree comes back to the random loop
RandomAppend ==
    /\ TreeReturns
    /\ caller = "random"
    /\ tree_list' = Append(tree_list, Tree(trunk, leaves))
    /\ attempts' = attempts + 1
    /\ pc' = "random_loop"
    /\ UNCHANGED <<args, exportVars, tree_params, exc, result, warned, rng_used, uniformVars,
                   max_attempts, positions, candidates, callVars, treeVars>>

\* lines 91, 104-110: the loop ends, the warning is printed if trees are
\* missing, tree_list is returned
RandomReturn ==
    /\ pc = "random_loop"
    /\ ~LoopContinues(Len(positions), attempts)
    /\ warned' = ShortStand
    /\ result' = Returned(tree_list)
    /\ pc' = "done"
    /\ UNCHANGED <<args, exportVars, tree_params, exc, rng_used, tree_list,
                   uniformVars, randomVars, callVars, treeVars>>

\* ----------------------------------------------------------- specifications
Locals ==
    /\ exc = None /\ result = NoResult /\ warned = FALSE /\ rng_used = FALSE
    /\ tree_list = <<>>
    /\ n_cols = 0 /\ n_rows = 0 /\ i = 0 /\ j = 0 /\ count = 0
    /\ attempts = 0 /\ max_attempts = 0 /\ positions = <<>> /\ candidates = 0
    /\ trunk = Unbound /\ crown_base_z = Zero /\ n_leaves = 0 /\ leaves = <<>>
    /\ rows = <<>> /\ tid = 0 /\ lid = 0

\* no stand is being exported
NoExport == stand = <<>>

\* a call generate_stand(plot_width, plot_length, n_trees, placement,
\* tree_params, min_spacing)
Init ==
    /\ plot_width \in PlotSizes
    /\ plot_length \in PlotSizes
    /\ n_trees \in 0..MaxTrees
    /\ placement \in Placements
    /\ tree_params \in { NoneParams } \/ tree_params \in DictInputs
       \/ tree_params \in ListInputs
    /\ min_spacing \in Spacings
    /\ pc = "validate"
    /\ caller = None /\ position = Origin /\ call_params = EmptyDict
    /\ Locals /\ NoExport

Next ==
    \/ Validate
    \/ Dispatch
    \/ UniformPlace
    \/ UniformAppend
    \/ UniformNextCol
    \/ UniformReturn
    \/ RandomDraw
    \/ RandomAppend
    \/ RandomReturn
    \/ TreeEntry
    \/ TreeLeaf

Spec == Init /\ [][Next]_vars

\* the loops are sequential code: every step that can be taken is taken
LiveSpec == Spec /\ WF_vars(Next)

TreeInit ==
    /\ call_params \in TreeCallInputs
    /\ position \in TreePositions
    /\ caller = "top"
    /\ pc = "tree_entry"
    /\ plot_width = One /\ plot_length = One /\ n_trees = 0
    /\ placement = None /\ tree_params = NoneParams /\ min_spacing = Zero
    /\ Locals /\ NoExport

TreeNext ==
    \/ TreeEntry
    \/ TreeLeaf
    \/ TreeReturn

TreeSpec == TreeInit /\ [][TreeNext]_vars

\* a call generate_stand(plot_width, plot_length, n_trees, "uniform",
\* tree_params): one dict without leaves, or a list whose first tree has a leaf
GridInit ==
    /\ plot_width \in PlotSizes
    /\ plot_length \in PlotSizes
    /\ n_trees \in 0..MaxGridTrees
    /\ placement = "uniform"
    /\ \/ tree_params = DictParams(TP(RInt(4), "sphere", Zero, "uniform"))
       \/ n_trees >= 1 /\ tree_params = ListParams(PerTreeWith(n_trees, 1, Leafy))
    /\ min_spacing = One
    /\ pc = "validate"
    /\ caller = None /\ position = Origin /\ call_params = EmptyDict
    /\ Locals /\ NoExport

GridNext ==
    \/ Validate
    \/ Dispatch
    \/ UniformPlace
    \/ UniformAppend
    \/ UniformNextCol
    \/ UniformReturn
    \/ TreeEntry
    \/ TreeLeaf

GridSpec == GridInit /\ [][GridNext]_vars

\* direct calls of the two samplers
SamplerInit ==
    /\ \/ caller = "sample_leaf_normal" /\ call_params \in LeafNormalCallInputs
       \/ caller = "sample_point_in_crown" /\ call_params \in CrownCallInputs
    /\ position = Origin
    /\ pc = "call"
    /\ plot_width = One /\ plot_length = One /\ n_trees = 0
    /\ placement = None /\ tree_params = NoneParams /\ min_spacing = Zero
    /\ Locals /\ NoExport

SamplerNext ==
    \/ SampleLeafNormalCall
    \/ SamplePointInCrownCall

SamplerSpec == SamplerInit /\ [][SamplerNext]_vars

\* ------------------------------------------------------------- export.py
\* stands as generate_stand returns them: trees with a trunk and 0..MaxLeafRows
\* leaves
ExportLeaf0(b, m) ==
    [ center |-> << RAdd(b[1], R(m, 4)), b[2], RInt(4 + m) >>,
      radius |-> R(1, 20),
      normal |-> IF m = 1 THEN << Zero, Zero, One >> ELSE << One, Zero, Zero >> ]

ExportTrees ==
    { Tree([ base |-> b, height |-> RInt(4), radius |-> r ],
           [ m \in 1..nl |-> ExportLeaf0(b, m) ]) :
        b \in { << Half, Half, Zero >>, << One, Half, Zero >> },
        r \in { R(1, 5) },
        nl \in 0..MaxLeafRows }

ExportStands == UNION { [ 1..len -> ExportTrees ] : len \in 0..MaxTrees }

\* line 17
HeaderRow == << "tree_id", "type", "x", "y", "z", "radius", "nx", "ny", "nz" >>

\* the trunk row with the tree index counted from one: C15 fails on it
TrunkRowOneBased(id, tree) ==
    << id + 1, "trunk", tree.trunk.base[1], tree.trunk.base[2], tree.trunk.base[3],
       tree.trunk.radius, 0, 0, 0 >>

\* lines 20-25
TrunkRow(id, tree) ==
    << id, "trunk", tree.trunk.base[1], tree.trunk.base[2], tree.trunk.base[3],
       tree.trunk.radius, 0, 0, 0 >>

\* lines 28-30
LeafRow(id, leaf) ==
    << id, "leaf", leaf.center[1], leaf.center[2], leaf.center[3],
       leaf.radius, leaf.normal[1], leaf.normal[2], leaf.normal[3] >>

exportFrame == <<args, tree_params, exc, warned, rng_used, tree_list,
                 uniformVars, randomVars, callVars, treeVars, stand>>

\* lines 15-17: the file is opened for writing and the header row written
ExportHeader ==
    /\ pc = "export_open"
    /\ rows' = << HeaderRow >>
    /\ tid' = 0
    /\ pc' = "export_trees"
    /\ UNCHANGED <<exportFrame, result, lid>>

\* lines 19-25: the next tree of the stand, its trunk row
ExportTrunk ==
    /\ pc = "export_trees"
    /\ tid < Len(stand)
    /\ rows' = Append(rows, TrunkRow(tid, stand[tid + 1]))
    /\ lid' = 0
    /\ pc' = "export_leaves"
    /\ UNCHANGED <<exportFrame, result, tid>>

\* lines 27-30: the next leaf of the tree, its leaf row
ExportLeaf ==
    /\ pc = "export_leaves"
    /\ lid < Len(stand[tid + 1].leaves)
    /\ rows' = Append(rows, LeafRow(tid, stand[tid + 1].leaves[lid + 1]))
    /\ lid' = lid + 1
    /\ UNCHANGED <<exportFrame, result, pc, tid>>

\* line 27, leaves exhausted: back to line 19 with the next index
ExportNextTree ==
    /\ pc = "export_leaves"
    /\ lid >= Len(stand[tid + 1].leaves)
    /\ tid' = tid + 1
    /\ pc' = "export_trees"
    /\ UNCHANGED <<exportFrame, result, rows, lid>>

\* line 19, stand exhausted: the file is closed and None returned
ExportClose ==
    /\ pc = "export_trees"
    /\ tid >= Len(stand)
    /\ result' = Returned(None)
    /\ pc' = "done"
    /\ UNCHANGED <<exportFrame, rows, tid, lid>>

\* a call export_forest_stand_to_csv(stand, filename)
ExportInit ==
    /\ stand \in ExportStands
    /\ caller = "export_forest_stand_to_csv"
    /\ pc = "export_open"
    /\ position = Origin /\ call_params = EmptyDict
    /\ plot_width = One /\ plot_length = One /\ n_trees = 0
    /\ placement = None /\ tree_params = NoneParams /\ min_spacing = Zero
    /\ Locals

ExportNext ==
    \/ ExportHeader
    \/ ExportTrunk
    \/ ExportLeaf
    \/ ExportNextTree
    \/ ExportClose

ExportSpec == ExportInit /\ [][ExportNext]_vars

\* ------------------------------------------------------------------ claims
Terminated == pc \in { "done", "raised" }

\* a dict generate_tree accepts whatever its leaf count
ValidParams(d) ==
    /\ CallBinds(d)
    /\ d.crown_shape \in CrownShapes
    /\ d.leaf_angle_distribution \in LeafAngleDistributions

\* tree_params with which no call of generate_tree can raise
ValidTreeParams ==
    \/ tree_params.kind = "dict" /\ ValidParams(tree_params.d)
    \/ /\ tree_params.kind = "list"
       /\ Len(tree_params.l) = n_trees
       /\ \A k \in 1..Len(tree_params.l) : ValidParams(tree_params.l[k])

InPlot(b) ==
    /\ RLe(Zero, b[1]) /\ RLe(b[1], plot_width)
    /\ RLe(Zero, b[2]) /\ RLe(b[2], plot_length)
    /\ b[3] = Zero

\* squared xy-distance of two points, as a fraction <<num, den>> with den > 0
Dist2(a, b) ==
    LET xn == a[1][1] * b[1][2] - b[1][1] * a[1][2]
        xd == a[1][2] * b[1][2]
        yn == a[2][1] * b[2][2] - b[2][1] * a[2][2]
        yd == a[2][2] * b[2][2]
    IN  << xn * xn * yd * yd + yn * yn * xd * xd, xd * xd * yd * yd >>

\* every two distinct points of the sequence ps are min_spacing apart
Spaced(ps) ==
    \A b \in 1..Len(ps) : \A a \in 1..(b - 1) :
        \/ min_spacing[1] < 0
        \/ RLe(<< min_spacing[1] * min_spacing[1], min_spacing[2] * min_spacing[2] >>,
               Dist2(ps[a], ps[b]))

BasesOf(ts) == [ k \in 1..Len(ts) |-> ts[k].trunk.base ]

\* C1 (as claimed): uniform placement with valid tree_params returns exactly
\* n_trees trees for every n_trees >= 0, each base inside the plot with z = 0.
C1_UniformReturnsAll ==
    (placement = "uniform" /\ ValidTreeParams /\ Terminated)
    => /\ pc = "done"
       /\ Len(result[1]) = n_trees
       /\ \A k \in 1..Len(result[1]) : InPlot(result[1][k].trunk.base)

\* C1, the part the code satisfies: the same for n_trees >= 1.
C1_UniformPositive ==
    (placement = "uniform" /\ ValidTreeParams /\ Terminated
     /\ n_trees >= 1)
    => /\ pc = "done"
       /\ Len(result[1]) = n_trees
       /\ \A k \in 1..Len(result[1]) : InPlot(result[1][k].trunk.base)

\* C2: in random placement the accepted positions are pairwise at least
\* min_spacing apart at every step of the loop, and so are the trunk bases of
\* the trees generated so far and of the returned stand.
C2_MinSpacing ==
    placement = "random"
    => /\ Spaced(positions)
       /\ Spaced(BasesOf(tree_list))
       /\ pc = "done" => Spaced(BasesOf(result[1]))

\* C2 witness: a returned stand of two trees, with spacing enforced and at
\* least one candidate rejected on the way.
C2_Witness ==
    /\ placement = "random" /\ pc = "done" /\ min_spacing = One
    /\ Len(result[1]) >= 2 /\ candidates > Len(result[1])

\* C3: a list of the wrong length ends the call with ValueError for every
\* placement, before any position, tree or random draw; a dict or a list of
\* the right length passes the check.
WrongLength == tree_params.kind = "list" /\ Len(tree_params.l) # n_trees
C3_State ==
    WrongLength /\ pc # "validate"
    => /\ pc = "raised" /\ exc = "ValueError" /\ result = NoResult
       /\ positions = <<>> /\ tree_list = <<>> /\ candidates = 0
       /\ ~rng_used /\ caller = None /\ n_cols = 0
C3_Step ==
    pc = "validate"
    => (pc' = "raised") = WrongLength
C3_LengthCheck == []C3_State /\ [][C3_Step]_vars

\* C3 witness: the check has rejected a list under an unsupported placement.
C3_Witness ==
    /\ pc = "raised" /\ WrongLength /\ placement = "hexagonal"

\* C4: with a per-tree list, the k-th tree (generated so far, or returned)
\* carries the trunk height and radius of tree_params[k], in uniform and in
\* random placement, also when the stand is partial.
GeneratedWith(t, d) ==
    /\ t.trunk.height = d.trunk_height
    /\ t.trunk.radius = d.trunk_radius
    /\ \A m \in 1..Len(t.leaves) : t.leaves[m].radius = d.leaf_radius
C4_PerTreeParams ==
    tree_params.kind = "list" /\ pc # "validate"
    => /\ Len(tree_list) <= Len(tree_params.l)
       /\ \A k \in 1..Len(tree_list) : GeneratedWith(tree_list[k], tree_params.l[k])
       /\ pc = "done" => result = Returned(tree_list)

\* C4 witness: a partial random stand (fewer trees than asked, candidates
\* rejected) built from a per-tree list.
C4_Witness ==
    /\ placement = "random" /\ pc = "done" /\ tree_params.kind = "list"
    /\ Len(result[1]) >= 1 /\ Len(result[1]) < n_trees /\ candidates > Len(result[1])

\* C5: an unsupported placement ends the call with ValueError; no tree is
\* generated, no random number drawn, nothing returned.
C5_UnsupportedPlacement ==
    placement \notin { "uniform", "random" }
    => /\ pc \in { "validate", "dispatch", "raised" }
       /\ pc = "raised" => exc = "ValueError"
       /\ tree_list = <<>> /\ positions = <<>> /\ candidates = 0
       /\ ~rng_used /\ result = NoResult /\ caller = None

\* C5 witness: the placement branch itself has raised (the list check passed).
C5_Witness ==
    /\ placement = "hexagonal" /\ pc = "raised" /\ ~WrongLength

\* C6: the random loop terminates; attempts counts the candidates drawn, one
\* for each, accepted or not, once its iteration is over; the loop is left as
\* soon as n_trees positions are accepted or attempts reaches n_trees * 50; at
\* most n_trees * 50 candidates are drawn and at most n_trees trees returned.
InTreeCall == pc \in { "tree_entry", "tree_loop" }
C6_State ==
    placement = "random" /\ ~WrongLength /\ pc \notin { "validate", "dispatch" }
    => /\ max_attempts = n_trees * AttemptsPerTree
       /\ attempts <= max_attempts
       /\ candidates <= n_trees * AttemptsPerTree
       /\ Len(positions) <= n_trees /\ Len(tree_list) <= n_trees
       /\ pc \in { "random_loop", "done" } => candidates = attempts
       /\ InTreeCall => candidates = attempts + 1
       /\ pc = "done" => Len(result[1]) <= n_trees
C6_Step ==
    /\ candidates' \in { candidates, candidates + 1 }
    /\ attempts' \in { attempts, attempts + 1 }
    /\ (pc = "random_loop"
        /\ (Len(positions) >= n_trees \/ attempts >= n_trees * AttemptsPerTree))
       => pc' = "done" /\ candidates' = candidates
C6_Terminates ==
    /\ []C6_State
    /\ [][C6_Step]_vars
    /\ (placement = "random" => <>Terminated)

\* C6 witness: the loop has ended with the whole budget of a two-tree request
\* used up.
C6_Witness ==
    /\ placement = "random" /\ pc = "done" /\ n_trees = MaxTrees
    /\ candidates = n_trees * AttemptsPerTree

\* C7: when the budget runs out with trees missing, the call does not raise: it
\* returns the trees accepted so far and warns; a returned random stand comes
\* with the warning exactly when it has fewer than n_trees trees.
C7_State ==
    /\ (placement = "random" /\ pc = "done")
       => /\ warned = (Len(result[1]) < n_trees)
          /\ result = Returned(tree_list)
          /\ BasesOf(result[1]) = positions
          /\ exc = None
    /\ (placement = "random" /\ pc = "raised" /\ ~WrongLength)
       => ~warned /\ result = NoResult /\ Len(positions) = Len(tree_list) + 1
C7_Step ==
    (pc = "random_loop" /\ attempts >= n_trees * AttemptsPerTree
     /\ Len(positions) < n_trees)
    => pc' = "done" /\ warned' /\ result' = Returned(tree_list) /\ exc' = None
C7_PartialStand == []C7_State /\ [][C7_Step]_vars

\* C7 witness: a partial stand returned with the warning after the budget ran
\* out.
C7_Witness ==
    /\ placement = "random" /\ pc = "done" /\ warned
    /\ Len(result[1]) >= 1 /\ Len(result[1]) < n_trees
    /\ attempts = n_trees * AttemptsPerTree

\* floor(lai * crown_radius^2 / leaf_radius^2) in exact arithmetic
ExactLeaves(d) ==
    Trunc(RDiv(RMul(d.lai, RSq(d.crown_radius)), RSq(d.leaf_radius)))

\* C8 (as claimed): a tree returned by generate_tree for valid arguments has
\* exactly floor(lai * crown_radius^2 / leaf_radius^2) leaves, each of radius
\* leaf_radius.
C8_LeafCount ==
    (caller = "top" /\ pc = "done" /\ ValidParams(call_params))
    => /\ Len(result[1].leaves) = ExactLeaves(call_params)
       /\ \A m \in 1..Len(result[1].leaves) :
              result[1].leaves[m].radius = call_params.leaf_radius

\* C8, the part the code satisfies: the leaf count is the binary64 value of
\* line 194, which is the exact floor or one less, and is 1200 for the
\* documented example.
DocumentedExample == FloatLeaves(RInt(3), RInt(2), R(1, 10))
C8_LeafCountFloat ==
    /\ DocumentedExample = 1200
    /\ (caller = "top" /\ pc = "done" /\ ValidParams(call_params))
       => /\ Len(result[1].leaves) \in { ExactLeaves(call_params),
                                      ExactLeaves(call_params) - 1 }
          /\ \A m \in 1..Len(result[1].leaves) :
                 result[1].leaves[m].radius = call_params.leaf_radius

\* C9 (as claimed): generate_tree with an unsupported crown_shape or
\* leaf_angle_distribution always raises ValueError and returns nothing,
\* whatever the other arguments.
C9_InvalidAlwaysRaises ==
    (caller = "top" /\ Terminated
     /\ (call_params.crown_shape \notin CrownShapes
         \/ call_params.leaf_angle_distribution \notin LeafAngleDistributions))
    => pc = "raised" /\ exc = "ValueError" /\ result = NoResult

\* C9, the part the code satisfies: the same when the leaf count is positive.
C9_InvalidRaisesWithLeaves ==
    (caller = "top" /\ Terminated /\ n_leaves > 0
     /\ (call_params.crown_shape \notin CrownShapes
         \/ call_params.leaf_angle_distribution \notin LeafAngleDistributions))
    => pc = "raised" /\ exc = "ValueError" /\ result = NoResult

\* the arguments make generate_tree raise
WouldRaise(d) ==
    /\ NLeaves(d.lai, d.crown_radius, d.leaf_radius) > 0
    /\ \/ d.crown_shape \notin CrownShapes
       \/ d.leaf_angle_distribution \notin LeafAngleDistributions

\* C10: once generate_tree raises inside generate_stand, the call is over with
\* that ValueError: no further step, no warning, nothing returned, the trees
\* generated before are not handed out.
C10_Propagates ==
    (caller \in { "uniform", "random" } /\ WouldRaise(call_params) /\ ~InTreeCall)
    => /\ pc = "raised" /\ exc = "ValueError"
       /\ result = NoResult /\ ~warned
       /\ ~ENABLED Next

\* C10 witness: the second or a later tree of a random stand has raised.
C10_Witness ==
    /\ pc = "raised" /\ caller = "random" /\ Len(tree_list) >= 1
    /\ exc = "ValueError"

\* squared length of a 3-vector
Norm2(v) == RAdd(RSq(v[1]), RAdd(RSq(v[2]), RSq(v[3])))

\* C11: sample_leaf_normal returns (0,0,1) for planophile and (1,0,0) for
\* erectophile without drawing a random number; uniform and spherical take
\* the same drawing branch and return a vector of norm 1; any other value
\* raises ValueError and nothing is returned.
C11_LeafNormal ==
    /\ SampleLeafNormal("uniform") = SampleLeafNormal("spherical")
    /\ (caller = "sample_leaf_normal" /\ Terminated)
       => LET d == call_params.leaf_angle_distribution
          IN  /\ d = "planophile"
                 => pc = "done" /\ result = Returned(<<Zero, Zero, One>>) /\ ~rng_used
              /\ d = "erectophile"
                 => pc = "done" /\ result = Returned(<<One, Zero, Zero>>) /\ ~rng_used
              /\ d \in { "uniform", "spherical" }
                 => pc = "done" /\ rng_used /\ Norm2(result[1]) = One
              /\ d \notin { "uniform", "spherical", "planophile", "erectophile" }
                 => /\ pc = "raised" /\ exc = "ValueError"
                    /\ result = NoResult /\ ~rng_used

\* C11 witness: the planophile call has returned.
C11_Witness ==
    /\ caller = "sample_leaf_normal" /\ pc = "done"
    /\ call_params.leaf_angle_distribution = "planophile"
    /\ result = Returned(<<Zero, Zero, One>>)

\* C12: a point returned by sample_point_in_crown lies in the envelope of its
\* shape (xy-radius <= radius; sphere |z| <= height; the others
\* 0 <= z <= height; cone xy-radius <= radius * (1 - z / height)); a sphere
\* point is a candidate of norm <= radius before its z is scaled, a dropped
\* candidate returns nothing; an unsupported shape raises ValueError.
C12_CrownEnvelope ==
    caller = "sample_point_in_crown"
    => LET shape  == call_params.crown_shape
           height == call_params.crown_height
           radius == call_params.crown_radius
           pt     == result[1]
           xy2    == RAdd(RSq(pt[1]), RSq(pt[2]))
           taper  == RMul(radius, RSub(One, RDiv(pt[3], height)))
           z_pre  == RDiv(RMul(pt[3], radius), height)
       IN  /\ pc = "call" => result = NoResult
           /\ pc = "raised"
              => /\ shape \notin { "sphere", "sphere_w_LH", "cylinder", "cone" }
                 /\ exc = "ValueError" /\ result = NoResult
           /\ shape \notin { "sphere", "sphere_w_LH", "cylinder", "cone" }
              => pc \in { "call", "raised" }
           /\ pc = "done"
              => /\ RLe(xy2, RSq(radius))
                 /\ shape = "sphere"
                    => /\ RLe(RSub(Zero, height), pt[3]) /\ RLe(pt[3], height)
                       /\ RLe(RAdd(xy2, RSq(z_pre)), RSq(radius))
                 /\ shape = "sphere_w_LH"
                    => /\ RLe(Zero, pt[3]) /\ RLe(pt[3], height)
                       /\ RLe(RAdd(xy2, RSq(z_pre)), RSq(radius))
                 /\ shape \in { "cylinder", "cone" }
                    => RLe(Zero, pt[3]) /\ RLe(pt[3], height)
                 /\ shape = "cone"
                    => RLe(Zero, taper) /\ RLe(xy2, RSq(taper))

\* C12 witness: a sphere point returned with its z scaled to -height, in a
\* crown higher than wide.
C12_Witness ==
    /\ caller = "sample_point_in_crown" /\ pc = "done"
    /\ call_params.crown_shape = "sphere"
    /\ RLt(call_params.crown_radius, call_params.crown_height)
    /\ result[1][3] = RSub(Zero, call_params.crown_height)

\* C13: a tree returned by generate_tree has the trunk {base: position,
\* height: trunk_height, radius: trunk_radius}; each leaf center is a point of
\* the crown sampler moved by (position.x, position.y, position.z +
\* trunk_height), so for sphere_w_LH, cylinder and cone its z lies in
\* [crown_base_z, crown_base_z + crown_height].
C13_TreeGeometry ==
    (caller = "top" /\ pc = "done")
    => LET t   == result[1]
           cbz == RAdd(position[3], call_params.trunk_height)
       IN  /\ t.trunk = [ base |-> position, height |-> call_params.trunk_height,
                          radius |-> call_params.trunk_radius ]
           /\ \A m \in 1..Len(t.leaves) :
                 LET c == t.leaves[m].center
                 IN  /\ << RSub(c[1], position[1]), RSub(c[2], position[2]),
                            RSub(c[3], cbz) >>
                           \in SamplePointInCrown(call_params.crown_shape,
                                   call_params.crown_height, call_params.crown_radius)
                     /\ call_params.crown_shape \in { "sphere_w_LH", "cylinder", "cone" }
                        => /\ RLe(cbz, c[3])
                           /\ RLe(c[3], RAdd(cbz, call_params.crown_height))

\* C13 witness: a cone tree with two leaves, one of them above the crown
\* base, returned at a position off the ground.
C13_Witness ==
    /\ caller = "top" /\ pc = "done" /\ call_params.crown_shape = "cone"
    /\ position[3] = One /\ Len(result[1].leaves) = 2
    /\ \E m \in 1..2 :
          RLt(RAdd(position[3], call_params.trunk_height), result[1].leaves[m].center[3])

\* ceil(sqrt(n_trees * plot_width / plot_length)) and ceil(n_trees / n_cols),
\* from the arguments alone
ScanCols ==
    LET a == n_trees * plot_width[1] * plot_length[2]
        b == plot_width[2] * plot_length[1]
    IN  CHOOSE c \in 0..(a + 1) :
            /\ c * c * b >= a
            /\ c = 0 \/ (c - 1) * (c - 1) * b < a
ScanRows == (n_trees + ScanCols - 1) \div ScanCols

\* the base of the k-th tree (0-based) of the column-major scan
ScanBase(k) ==
    << RDiv(RMul(R(2 * (k \div ScanRows) + 1, 2), plot_width), RInt(ScanCols)),
       RDiv(RMul(R(2 * (k % ScanRows) + 1, 2), plot_length), RInt(ScanRows)),
       Zero >>

\* C14: in uniform placement the k-th tree (0-based) stands at
\* ((i + 0.5) * plot_width / n_cols, (j + 0.5) * plot_length / n_rows, 0) with
\* i = k div n_rows and j = k mod n_rows; the bases are pairwise distinct, the
\* cells after the n_trees-th are skipped, and the bases depend on plot_width,
\* plot_length and n_trees only, whatever the random source draws.
C14_GridScan ==
    placement = "uniform"
    => /\ \A k \in 1..Len(tree_list) : tree_list[k].trunk.base = ScanBase(k - 1)
       /\ \A k \in 1..Len(tree_list) : \A m \in 1..(k - 1) :
              tree_list[k].trunk.base # tree_list[m].trunk.base
       /\ Len(tree_list) <= n_trees
       /\ pc = "done" => result = Returned(tree_list) /\ Len(tree_list) = n_trees

\* C14 witness: three trees returned from a grid of four cells, the last cell
\* skipped, with random numbers drawn for a leaf on the way.
C14_Witness ==
    /\ placement = "uniform" /\ pc = "done" /\ n_trees = 3
    /\ n_cols * n_rows > n_trees /\ rng_used
    /\ Len(result[1]) = 3

\* rows written before the rows of the tree at index k: the header, and a trunk
\* row and the leaf rows of every earlier tree
RECURSIVE RowsBefore(_)
RowsBefore(k) ==
    IF k = 0 THEN 1 ELSE RowsBefore(k - 1) + 1 + Len(stand[k].leaves)

Exporting == caller = "export_forest_stand_to_csv"

\* C15: the exported file holds the header row, then for each tree in stand
\* order one trunk row (0-based index, base, trunk radius, zero normal)
\* immediately followed by one leaf row per leaf in leaf order (same index,
\* center, leaf radius, normal); data rows = trees + leaves
C15_CsvRows ==
    Exporting /\ pc = "done"
    => /\ Len(rows) = RowsBefore(Len(stand))
       /\ rows[1] = HeaderRow
       /\ \A k \in 1..Len(stand) :
            LET t == stand[k]
                r == rows[RowsBefore(k - 1) + 1]
            IN  /\ r[1] = k - 1 /\ r[2] = "trunk"
                /\ << r[3], r[4], r[5] >> = t.trunk.base
                /\ r[6] = t.trunk.radius
                /\ r[7] = 0 /\ r[8] = 0 /\ r[9] = 0
                /\ \A m \in 1..Len(t.leaves) :
                     LET l == rows[RowsBefore(k - 1) + 1 + m]
                     IN  /\ l[1] = k - 1 /\ l[2] = "leaf"
                         /\ << l[3], l[4], l[5] >> = t.leaves[m].center
                         /\ l[6] = t.leaves[m].radius
                         /\ << l[7], l[8], l[9] >> = t.leaves[m].normal

\* C15: a stand of two trees, the first with two leaves, has been exported
C15_Witness ==
    /\ Exporting /\ pc = "done"
    /\ Len(stand) = 2 /\ Len(stand[1].leaves) = 2 /\ Len(stand[2].leaves) >= 1
    /\ Len(rows) >= 6
    /\ rows[5][2] = "trunk" /\ rows[5][1] = 1

====
